---------------------------- MODULE Spec2Model ----------------------------
(***************************************************************************)
(* Model of the incident query service (FastAPI application of app/main.py *)
(* with the routers app/routers/incident.py and manager_router.py).        *)
(*                                                                         *)
(* The service is read-only: the incidents and their history rows are      *)
(* written by other services.  The state is the store (two tables), the    *)
(* UTC clock and the last request with the response the service gave.      *)
(* One action, Handle, runs a whole request: dispatch, parameter           *)
(* validation, credential decoding, guard, queries, response.              *)
(*                                                                         *)
(* Time is counted in minutes.  A UUID is a small integer; a string that   *)
(* may spell a UUID is a record [form, id], so that str(UUID) (always the  *)
(* canonical lower-case form) and UUID(str) / the store's uuid cast        *)
(* (which accept other spellings and reject non-UUID text) are modelled    *)
(* by what they do.                                                        *)
(***************************************************************************)
EXTENDS Integers, Sequences, FiniteSets, TLC

VARIABLES
    store,      \* table incidents: sequence of rows in insertion order
    history,    \* table of incident history rows, in insertion order
    now,        \* the UTC clock, in minutes
    req,        \* the last request handled, with the time it arrived
    resp,       \* the response given to it (status 0: none yet)
    fault,      \* the store fails the fault-th query of a request (0: none)
    sessions    \* the store sessions that are open

vars == <<store, history, now, req, resp, fault, sessions>>

-----------------------------------------------------------------------------
(* Bounds of the model                                                     *)

MaxUuid == 2          \* user, company and manager ids are 1..MaxUuid
MaxIncidents == 2     \* incidents ingested one at a time
MaxHistory == 2       \* history rows ingested
MaxTicks == 2         \* clock advances
ExtraBulk == 1        \* a bulk ingest holds the largest limit + ExtraBulk rows

(* Program constants                                                       *)

UserCompanyLimit == 20      \* .limit(20)
CompanyLimit == 10          \* .limit(10)
HoursPerInterval == 3       \* (0, 3), (3, 6), ...
NumIntervals == 8           \* eight intervals

MinutesPerHour == 60
MinutesPerDay == 24 * MinutesPerHour
StartClock == MinutesPerDay + 10 * MinutesPerHour    \* day 1, 10:00
TickMinutes == 12 * MinutesPerHour                   \* the clock's step

-----------------------------------------------------------------------------
(* Strings that may spell a UUID                                           *)

Uuids == 1..MaxUuid

\* str(uuid): the canonical lower-case hyphenated spelling.
StrOfUuid(u) == [form |-> "canon", id |-> u]
\* The same UUID spelled in upper case.
UpperOfUuid(u) == [form |-> "upper", id |-> u]
\* A string that is no UUID, and the absence of a string.
BadText == [form |-> "bad", id |-> 0]
NoText == [form |-> "absent", id |-> 0]

\* uuid.UUID(s) and the store's cast of a string to uuid succeed on these.
IsUuidText(s) == s.form \in {"canon", "upper"}
ParseUuid(s) == s.id

NoRole == "<absent>"
NoExp == 0 - 1

-----------------------------------------------------------------------------
(* Credentials (get_current_user)                                          *)

\* The payload of a token: the fields the service reads, and exp, which
\* jwt.decode checks.  A field may be absent.
MkClaims(sub, user_type, exp) == [sub |-> sub, user_type |-> user_type, exp |-> exp]
EmptyClaims == MkClaims(NoText, NoRole, NoExp)

\* kind: "signed" with SECRET_KEY and HS256, "forged" (another key), or
\* "garbage" (no JWT at all).
MkToken(kind, claims) == [kind |-> kind, claims |-> claims]
\* The authorization header: absent, or a prefix followed by a token.
MkHeader(prefix, token) == [present |-> TRUE, prefix |-> prefix, token |-> token]
NoHeader == [present |-> FALSE, prefix |-> "", token |-> MkToken("garbage", EmptyClaims)]

\* authorization.replace('Bearer ', '') if authorization.startswith('Bearer ')
\* else authorization: what is left in front of the token.
StripBearer(h) == IF h.prefix = "Bearer " THEN "" ELSE h.prefix

\* jwt.decode(token, SECRET_KEY, algorithms=[ALGORITHM]) raises a PyJWTError
\* when the string is no JWT, the signature does not verify, or exp is past.
JwtDecodes(h, clock) ==
    /\ StripBearer(h) = ""
    /\ h.token.kind = "signed"
    /\ (h.token.claims.exp = NoExp \/ h.token.claims.exp > clock)

\* Mutant: the token is decoded without verifying its signature.
get_current_user_Unverified(h, clock) ==
    IF ~h.present THEN [some |-> FALSE, claims |-> EmptyClaims]
    ELSE IF /\ StripBearer(h) = ""
            /\ h.token.kind \in {"signed", "forged"}
            /\ (h.token.claims.exp = NoExp \/ h.token.claims.exp > clock)
         THEN [some |-> TRUE, claims |-> h.token.claims]
    ELSE [some |-> FALSE, claims |-> EmptyClaims]

\* get_current_user: [some |-> FALSE] is None.
NoUser == [some |-> FALSE, claims |-> EmptyClaims]
get_current_user(h, clock) ==
    IF ~h.present THEN NoUser
    ELSE IF JwtDecodes(h, clock) THEN [some |-> TRUE, claims |-> h.token.claims]
    ELSE NoUser

\* Python's "not current_user": None, or a dict with no key.
NotUser(cu) == ~cu.some \/ cu.claims = EmptyClaims

\* current_user['user_type'] and current_user['sub'] raise KeyError when the
\* key is absent; current_user.get('user_type') gives None instead.
HasRole(cu) == cu.claims.user_type # NoRole
HasSub(cu) == cu.claims.sub # NoText

-----------------------------------------------------------------------------
(* The store (models/model.py) and its queries                             *)

\* A row of table incidents.  manager_id 0 is NULL.  The description and the
\* attached file are left out: no guard, filter or order reads them, and a
\* response shows the description as stored.
MkIncident(id, state, channel, priority, creation_date, user_id, company_id, manager_id) ==
    [id |-> id, state |-> state, channel |-> channel, priority |-> priority,
     creation_date |-> creation_date, user_id |-> user_id,
     company_id |-> company_id, manager_id |-> manager_id]

\* A row of the incident history table; the description identifies the row.
MkHistory(incident_id, description, created_at) ==
    [incident_id |-> incident_id, description |-> description, created_at |-> created_at]

Rows(table) == {table[i] : i \in DOMAIN table}

MaxOf(S) == CHOOSE m \in S : \A x \in S : x <= m
MinOf(S) == CHOOSE m \in S : \A x \in S : m <= x

\* .order_by(Incident.creation_date.desc()).all(): every order of the rows
\* in which creation dates never increase.  The store is free to return
\* rows of equal creation date in any order.
RECURSIVE DescOrders(_)
DescOrders(S) ==
    IF S = {} THEN {<<>>}
    ELSE LET top == MaxOf({r.creation_date : r \in S})
         IN  UNION {{<<r>> \o t : t \in DescOrders(S \ {r})} :
                        r \in {x \in S : x.creation_date = top}}

\* .order_by(IncidentHistory.created_at.asc()).all()
RECURSIVE AscOrders(_)
AscOrders(S) ==
    IF S = {} THEN {<<>>}
    ELSE LET low == MinOf({r.created_at : r \in S})
         IN  UNION {{<<r>> \o t : t \in AscOrders(S \ {r})} :
                        r \in {x \in S : x.created_at = low}}

\* Mutant: the cap lets one row more through.
Limit_OneMore(s, n) == IF Len(s) <= n + 1 THEN s ELSE SubSeq(s, 1, n + 1)

\* .limit(n)
Limit(s, n) == IF Len(s) <= n THEN s ELSE SubSeq(s, 1, n)

\* str(e) of the errors the store raises: it cannot be reached, or it is
\* handed text that spells no UUID for a uuid column.
StoreDown == "connection to server failed"
BadUuid == "invalid input syntax for type uuid"

\* One of the n queries a handler is about to issue fails.
Fails(n) == fault \in 1..n

\* Mutant: the failed query is issued once more.
FailedAt_Retry(names) ==
    SubSeq(names, 1, fault) \o <<"store_error", names[fault]>>

\* What a request whose queries are names did with the store when one of
\* them failed: the queries up to the failed one, and the error raised.
FailedAt(names) == SubSeq(names, 1, fault) \o <<"store_error">>

-----------------------------------------------------------------------------
(* Response shapes (schemas/incident.py)                                   *)

IncidentResponse(i) ==
    [id |-> i.id, state |-> i.state, creation_date |-> i.creation_date]

IncidentDetailedResponse(i) ==
    [id |-> i.id, state |-> i.state, channel |-> i.channel, priority |-> i.priority,
     creation_date |-> i.creation_date, user_id |-> i.user_id,
     company_id |-> i.company_id, manager_id |-> i.manager_id]

IncidentHistoryResponse(h) ==
    [description |-> h.description, created_at |-> h.created_at]

IncidentDetailedWithHistoryResponse(i, hs) ==
    [id |-> i.id, state |-> i.state, channel |-> i.channel, priority |-> i.priority,
     creation_date |-> i.creation_date, user_id |-> i.user_id,
     company_id |-> i.company_id, manager_id |-> i.manager_id,
     history |-> [k \in DOMAIN hs |-> IncidentHistoryResponse(hs[k])]]

IncidentUserResponse(i) ==
    [creation_date |-> i.creation_date, state |-> i.state, priority |-> i.priority,
     company_id |-> StrOfUuid(i.company_id)]

MapSeq(s, Op(_)) == [k \in DOMAIN s |-> Op(s[k])]

-----------------------------------------------------------------------------
(* Responses                                                               *)

\* status: the HTTP status.  kind: the shape of the body.  detail: the
\* message of a {"detail": ...} body, or the text of a plain-text body.
\* errors: the details of a validation envelope.  items: the rows of a list
\* body (one row for an incident read by id).  counts: the integers of a
\* count body.  trace: what the request did with the store session.
\* keys: the keys of the JSON object of the body (none for a list or text).
NoStats == [avgResolutionTime |-> "", customerSatisfactionTenths |-> 0]
MkResp(status, kind, keys, detail, errors, items, counts, stats, trace) ==
    [status |-> status, kind |-> kind, keys |-> keys, detail |-> detail,
     errors |-> errors, items |-> items, counts |-> counts, stats |-> stats,
     trace |-> trace]

\* raise HTTPException(status_code, detail): FastAPI answers {"detail": detail}.
HTTPException(status, detail, trace) ==
    MkResp(status, "detail", {"detail"}, detail, <<>>, <<>>, <<>>, NoStats, trace)

\* An exception no handler catches: the server answers 500 with the plain
\* text "Internal Server Error".
Unhandled(trace) ==
    MkResp(500, "text", {}, "Internal Server Error", <<>>, <<>>, <<>>, NoStats, trace)

\* A JSON list of shaped rows.
ListBody(kind, items, trace) ==
    MkResp(200, kind, {}, "", <<>>, items, <<>>, NoStats, trace)

AuthRequired == "Authentication required"
NotAuthorized == "Not authorized to access this data"
OnlyCompany == "Only company users can access this endpoint"

-----------------------------------------------------------------------------
(* Guards: the first lines of every handler                                *)

\* Mutant: the role is never compared.
RoleGuard_NoRoleCheck(cu, role) ==
    IF NotUser(cu) THEN "401"
    ELSE IF ~HasRole(cu) THEN "error"
    ELSE "pass"

\* if not current_user: 401
\* if current_user['user_type'] != role: 403
\* "error" is the KeyError of current_user['user_type'] on claims without it.
RoleGuard(cu, role) ==
    IF NotUser(cu) THEN "401"
    ELSE IF ~HasRole(cu) THEN "error"
    ELSE IF cu.claims.user_type # role THEN "403"
    ELSE "pass"

\* if not current_user: 401
\* if current_user.get('user_type') != 'company': 403
CompanyGuard(cu) ==
    IF NotUser(cu) THEN "401"
    ELSE IF cu.claims.user_type # "company" THEN "403"
    ELSE "pass"

\* if not current_user: 401
\* if current_user['user_type'] != 'manager'
\*    and current_user['sub'] != str(data.user_id): 403
\* The second operand is read only when the first holds.
UserCompanyGuard(cu, user_id) ==
    IF NotUser(cu) THEN "401"
    ELSE IF ~HasRole(cu) THEN "error"
    ELSE IF cu.claims.user_type = "manager" THEN "pass"
    ELSE IF ~HasSub(cu) THEN "error"
    ELSE IF cu.claims.sub # StrOfUuid(user_id) THEN "403"
    ELSE "pass"

\* What a guard that did not pass answers; no query was issued.
GuardResponse(g, forbidden) ==
    IF g = "401" THEN HTTPException(401, AuthRequired, <<>>)
    ELSE IF g = "403" THEN HTTPException(403, forbidden, <<>>)
    ELSE Unhandled(<<>>)

-----------------------------------------------------------------------------
(* Handlers of routers/incident.py.  Each gives the set of responses the   *)
(* request may get: more than one when the store may order rows of equal   *)
(* date either way.  The trace holds "guard_pass" once the guard has let   *)
(* the request through, and then the queries issued, in order.             *)

\* Mutant: the filter leaves the company out.
UserCompanyRows_AnyCompany(user_id, company_id) ==
    {r \in Rows(store) : r.user_id = user_id}

\* POST /user-company
UserCompanyRows(user_id, company_id) ==
    {r \in Rows(store) : r.user_id = user_id /\ r.company_id = company_id}

get_user_company_incidents(data, cu) ==
    LET g == UserCompanyGuard(cu, data.user_id) IN
    IF g # "pass" THEN {GuardResponse(g, NotAuthorized)}
    ELSE IF Fails(1) THEN {Unhandled(<<"guard_pass">> \o FailedAt(<<"q_incident">>))}
    ELSE {ListBody("incidents", MapSeq(Limit(o, UserCompanyLimit), IncidentResponse),
                   <<"guard_pass", "q_incident">>) :
              o \in DescOrders(UserCompanyRows(data.user_id, data.company_id))}

\* Mutant: the day starts anew at noon.
start_of_day_Noon(clock) == clock - (clock % (12 * MinutesPerHour))

\* GET /call-volume
start_of_day(clock) == clock - (clock % MinutesPerDay)

\* One count query: the company's phone incidents created in the interval
\* [start_hour, end_hour) of today.
IntervalCount(company, day, start_hour, end_hour) ==
    Cardinality({r \in Rows(store) :
        /\ r.company_id = company
        /\ r.channel = "phone"
        /\ r.creation_date >= day + start_hour * MinutesPerHour
        /\ r.creation_date < day + end_hour * MinutesPerHour})

Intervals ==
    [k \in 1..NumIntervals |->
        <<(k - 1) * HoursPerInterval, k * HoursPerInterval>>]

\* detail=f"Database error: {str(e)}"
DatabaseError(e) ==
    IF e = StoreDown THEN "Database error: connection to server failed"
    ELSE "Database error: invalid input syntax for type uuid"

get_call_volume(cu) ==
    LET g == CompanyGuard(cu) IN
    IF g # "pass" THEN {GuardResponse(g, OnlyCompany)}
    ELSE IF ~HasSub(cu) THEN {Unhandled(<<"guard_pass">>)}
    ELSE IF Fails(IF IsUuidText(cu.claims.sub) THEN NumIntervals ELSE 1)
         THEN {HTTPException(500, DatabaseError(StoreDown),
                   <<"guard_pass">> \o FailedAt([k \in 1..NumIntervals |-> "q_incident"]))}
    ELSE IF ~IsUuidText(cu.claims.sub)
         THEN {HTTPException(500, DatabaseError(BadUuid),
                             <<"guard_pass", "q_incident", "store_error">>)}
    ELSE {MkResp(200, "call_volume", {"hourly_counts"}, "", <<>>, <<>>,
                 [k \in 1..NumIntervals |->
                     IntervalCount(ParseUuid(cu.claims.sub), start_of_day(now),
                                   Intervals[k][1], Intervals[k][2])],
                 NoStats, <<"guard_pass">> \o [k \in 1..NumIntervals |-> "q_incident"])}

\* GET /dashboard-stats
get_dashboard_stats(cu) ==
    LET g == CompanyGuard(cu) IN
    IF g # "pass" THEN {GuardResponse(g, OnlyCompany)}
    ELSE IF ~HasSub(cu) THEN {Unhandled(<<"guard_pass">>)}
    ELSE IF Fails(IF IsUuidText(cu.claims.sub) THEN 2 ELSE 1)
         THEN {Unhandled(<<"guard_pass">> \o FailedAt(<<"q_incident", "q_incident">>))}
    ELSE IF ~IsUuidText(cu.claims.sub)
         THEN {Unhandled(<<"guard_pass", "q_incident", "store_error">>)}
    ELSE LET company == ParseUuid(cu.claims.sub)
             total_calls == Cardinality({r \in Rows(store) :
                                r.company_id = company /\ r.channel = "phone"})
             open_tickets == Cardinality({r \in Rows(store) :
                                r.company_id = company /\ r.state = "open"})
         IN  {MkResp(200, "dashboard_stats", {"total_calls", "open_tickets"}, "",
                     <<>>, <<>>, <<total_calls, open_tickets>>, NoStats,
                     <<"guard_pass", "q_incident", "q_incident">>)}

\* GET /company-incidents
CompanyRows(company) == {r \in Rows(store) : r.company_id = company}

get_company_incidents(cu) ==
    LET g == CompanyGuard(cu) IN
    IF g # "pass" THEN {GuardResponse(g, OnlyCompany)}
    ELSE IF ~HasSub(cu) THEN {Unhandled(<<"guard_pass">>)}
    ELSE IF Fails(1) THEN {Unhandled(<<"guard_pass">> \o FailedAt(<<"q_incident">>))}
    ELSE IF ~IsUuidText(cu.claims.sub)
         THEN {Unhandled(<<"guard_pass", "q_incident", "store_error">>)}
    ELSE {ListBody("incidents", MapSeq(Limit(o, CompanyLimit), IncidentDetailedResponse),
                   <<"guard_pass", "q_incident">>) :
              o \in DescOrders(CompanyRows(ParseUuid(cu.claims.sub)))}

\* Mutant: the query runs before the guard is evaluated.
get_all_incidents_QueryFirst(cu) ==
    LET g == RoleGuard(cu, "manager") IN
    IF g = "401" THEN {HTTPException(401, AuthRequired, <<"q_incident">>)}
    ELSE IF g = "403" THEN {HTTPException(403, NotAuthorized, <<"q_incident">>)}
    ELSE IF g = "error" THEN {Unhandled(<<"q_incident">>)}
    ELSE {ListBody("incidents", MapSeq(o, IncidentDetailedResponse),
                   <<"q_incident", "guard_pass">>) : o \in DescOrders(Rows(store))}

\* GET /all-incidents
get_all_incidents(cu) ==
    LET g == RoleGuard(cu, "manager") IN
    IF g # "pass" THEN {GuardResponse(g, NotAuthorized)}
    ELSE IF Fails(1) THEN {Unhandled(<<"guard_pass">> \o FailedAt(<<"q_incident">>))}
    ELSE {ListBody("incidents", MapSeq(o, IncidentDetailedResponse), <<"guard_pass", "q_incident">>) :
              o \in DescOrders(Rows(store))}

\* GET /incidents-user
get_user_incidents_summary(cu) ==
    LET g == RoleGuard(cu, "user") IN
    IF g # "pass" THEN {GuardResponse(g, NotAuthorized)}
    ELSE IF ~HasSub(cu) \/ ~IsUuidText(cu.claims.sub) THEN {Unhandled(<<"guard_pass">>)}
    ELSE IF Fails(1) THEN {Unhandled(<<"guard_pass">> \o FailedAt(<<"q_incident">>))}
    ELSE {MkResp(200, "incidents_user", {"incidents"}, "", <<>>,
                 MapSeq(o, IncidentUserResponse), <<>>, NoStats, <<"guard_pass", "q_incident">>) :
              o \in DescOrders({r \in Rows(store) : r.user_id = ParseUuid(cu.claims.sub)})}

\* GET /{incident_id}
HistoryRows(incident_id) == {h \in Rows(history) : h.incident_id = incident_id}

get_incident_by_id(incident_id, cu) ==
    LET g == RoleGuard(cu, "manager") IN
    IF g # "pass" THEN {GuardResponse(g, NotAuthorized)}
    ELSE IF Fails(1) THEN {Unhandled(<<"guard_pass">> \o FailedAt(<<"q_incident">>))}
    ELSE IF ~IsUuidText(incident_id)
         THEN {Unhandled(<<"guard_pass", "q_incident", "store_error">>)}
    ELSE LET found == {r \in Rows(store) : r.id = ParseUuid(incident_id)} IN
         IF found = {} THEN {HTTPException(404, "Incident not found", <<"guard_pass", "q_incident">>)}
         ELSE IF Fails(2)
              THEN {Unhandled(<<"guard_pass">> \o FailedAt(<<"q_incident", "q_history">>))}
         ELSE LET incident == CHOOSE r \in found : TRUE IN
              {MkResp(200, "incident", DOMAIN IncidentDetailedWithHistoryResponse(incident, <<>>),
                      "", <<>>, <<IncidentDetailedWithHistoryResponse(incident, hs)>>,
                      <<>>, NoStats, <<"guard_pass", "q_incident", "q_history">>) :
                   hs \in AscOrders(HistoryRows(ParseUuid(incident_id)))}

-----------------------------------------------------------------------------
(* Handlers of routers/manager_router.py                                   *)

\* manager_id = UUID(current_user['sub']): KeyError without the key,
\* ValueError on a string that spells no UUID.
SubIsUuid(cu) == HasSub(cu) /\ IsUuidText(cu.claims.sub)

\* GET /manager/assigned-incidents
get_assigned_incidents(cu) ==
    LET g == RoleGuard(cu, "manager") IN
    IF g # "pass" THEN {GuardResponse(g, NotAuthorized)}
    ELSE IF ~SubIsUuid(cu) THEN {Unhandled(<<"guard_pass">>)}
    ELSE IF Fails(1) THEN {Unhandled(<<"guard_pass">> \o FailedAt(<<"q_incident">>))}
    ELSE {ListBody("incidents", MapSeq(o, IncidentDetailedResponse), <<"guard_pass", "q_incident">>) :
              o \in DescOrders({r \in Rows(store) :
                                   r.manager_id = ParseUuid(cu.claims.sub)})}

\* GET /manager/daily-stats
get_manager_daily_stats(cu) ==
    LET g == RoleGuard(cu, "manager") IN
    IF g # "pass" THEN {GuardResponse(g, NotAuthorized)}
    ELSE IF ~SubIsUuid(cu) THEN {Unhandled(<<"guard_pass">>)}
    ELSE IF Fails(1) THEN {Unhandled(<<"guard_pass">> \o FailedAt(<<"q_incident">>))}
    ELSE LET incidents_handled == Cardinality({r \in Rows(store) :
                 r.manager_id = ParseUuid(cu.claims.sub) /\ r.state = "closed"})
         IN  {MkResp(200, "manager_stats",
                     {"incidentsHandled", "avgResolutionTime", "customerSatisfaction"},
                     "", <<>>, <<>>, <<incidents_handled>>,
                     [avgResolutionTime |-> "15 mins", customerSatisfactionTenths |-> 48],
                     <<"guard_pass", "q_incident">>)}

\* GET /manager/high-priority-assigned-incidents: one history query for
\* every incident found.
RECURSIVE WithHistories(_)
WithHistories(o) ==
    IF o = <<>> THEN {<<>>}
    ELSE {<<IncidentDetailedWithHistoryResponse(Head(o), hs)>> \o rest :
              hs \in AscOrders(HistoryRows(Head(o).id)),
              rest \in WithHistories(Tail(o))}

get_high_priority_assigned_incidents(cu) ==
    LET g == RoleGuard(cu, "manager") IN
    IF g # "pass" THEN {GuardResponse(g, NotAuthorized)}
    ELSE IF ~SubIsUuid(cu) THEN {Unhandled(<<"guard_pass">>)}
    ELSE LET found == {r \in Rows(store) :
                 r.manager_id = ParseUuid(cu.claims.sub) /\ r.priority = "high"}
             queries == <<"q_incident">> \o [k \in 1..Cardinality(found) |-> "q_history"]
         IN  IF Fails(Len(queries)) THEN {Unhandled(<<"guard_pass">> \o FailedAt(queries))}
             ELSE
             {ListBody("incidents", items, <<"guard_pass">> \o queries) :
                  items \in UNION {WithHistories(o) : o \in DescOrders(found)}}

-----------------------------------------------------------------------------
(* app/main.py: health, the validation handler, the routes                 *)

health == MkResp(200, "health", {"status"}, "OK Python", <<>>, <<>>, <<>>, NoStats, <<>>)

\* The body of POST /user-company as sent: absent, or a JSON object whose
\* fields user_id and company_id are strings (NoText: the field is missing).
MkBody(kind, user_id, company_id) ==
    [kind |-> kind, user_id |-> user_id, company_id |-> company_id]
NoBody == MkBody("none", NoText, NoText)

\* UserCompanyRequest: both fields must be present and spell a UUID.
FieldErrors(name, text) ==
    IF text = NoText
    THEN <<[loc |-> <<"body", name>>, msg |-> "Field required", type |-> "missing"]>>
    ELSE IF ~IsUuidText(text)
    THEN <<[loc |-> <<"body", name>>, msg |-> "Input should be a valid UUID",
            type |-> "uuid_parsing"]>>
    ELSE <<>>

\* exc.errors() of the RequestValidationError
ValidationErrors(body) ==
    IF body.kind = "none"
    THEN <<[loc |-> <<"body">>, msg |-> "Field required", type |-> "missing"]>>
    ELSE FieldErrors("user_id", body.user_id) \o FieldErrors("company_id", body.company_id)

\* The validated body: UUID values.
ParseBody(body) ==
    [user_id |-> ParseUuid(body.user_id), company_id |-> ParseUuid(body.company_id)]

version == "1.0"

\* Mutant: only the first error is reported.
validation_exception_handler_FirstOnly(errors, trace) ==
    MkResp(400, "envelope", {"message", "details", "version"}, "Validation Error",
           <<[location |-> errors[1].loc, message |-> errors[1].msg,
              type |-> errors[1].type]>>,
           <<>>, <<>>, NoStats, trace)

validation_exception_handler(errors, trace) ==
    MkResp(400, "envelope", {"message", "details", "version"}, "Validation Error",
           [k \in DOMAIN errors |->
               [location |-> errors[k].loc, message |-> errors[k].msg,
                type |-> errors[k].type]],
           <<>>, <<>>, NoStats, trace)

\* A path is the sequence of segments after /incident-query.  A segment is a
\* fixed name, or a string read as a path parameter.
Seg(name) == [lit |-> name, text |-> BadText]
IdSeg(text) == [lit |-> "<id>", text |-> text]

MkRoute(method, pattern, name) == [method |-> method, pattern |-> pattern, name |-> name]

\* Mutant: /{incident_id} is declared first in the incident router.
Routes_IdFirst == <<
    MkRoute("GET", <<"health">>, "health"),
    MkRoute("GET", <<"{incident_id}">>, "incident-by-id"),
    MkRoute("POST", <<"user-company">>, "user-company"),
    MkRoute("GET", <<"call-volume">>, "call-volume"),
    MkRoute("GET", <<"dashboard-stats">>, "dashboard-stats"),
    MkRoute("GET", <<"company-incidents">>, "company-incidents"),
    MkRoute("GET", <<"all-incidents">>, "all-incidents"),
    MkRoute("GET", <<"incidents-user">>, "incidents-user"),
    MkRoute("GET", <<"manager", "assigned-incidents">>, "assigned-incidents"),
    MkRoute("GET", <<"manager", "daily-stats">>, "daily-stats"),
    MkRoute("GET", <<"manager", "high-priority-assigned-incidents">>, "high-priority") >>

\* The routes in the order of registration: @app.get, then
\* include_router(incident.router), then include_router(manager_router.router).
Routes == <<
    MkRoute("GET", <<"health">>, "health"),
    MkRoute("POST", <<"user-company">>, "user-company"),
    MkRoute("GET", <<"call-volume">>, "call-volume"),
    MkRoute("GET", <<"dashboard-stats">>, "dashboard-stats"),
    MkRoute("GET", <<"company-incidents">>, "company-incidents"),
    MkRoute("GET", <<"all-incidents">>, "all-incidents"),
    MkRoute("GET", <<"incidents-user">>, "incidents-user"),
    MkRoute("GET", <<"{incident_id}">>, "incident-by-id"),
    MkRoute("GET", <<"manager", "assigned-incidents">>, "assigned-incidents"),
    MkRoute("GET", <<"manager", "daily-stats">>, "daily-stats"),
    MkRoute("GET", <<"manager", "high-priority-assigned-incidents">>, "high-priority") >>

PathMatches(route, path) ==
    /\ Len(route.pattern) = Len(path)
    /\ \A k \in DOMAIN path :
          route.pattern[k] = "{incident_id}" \/ route.pattern[k] = path[k].lit

\* The first route that matches path and method; "405" when only the path
\* matches some route, "404" when nothing does.
Dispatch(method, path) ==
    LET full == {k \in DOMAIN Routes :
                    PathMatches(Routes[k], path) /\ Routes[k].method = method}
        partial == {k \in DOMAIN Routes : PathMatches(Routes[k], path)}
    IN  IF full # {} THEN Routes[MinOf(full)].name
        ELSE IF partial # {} THEN "405"
        ELSE "404"

-----------------------------------------------------------------------------
(* One request, from dispatch to response                                  *)

MkRequest(method, path, header, body) ==
    [method |-> method, path |-> path, header |-> header, body |-> body]

\* get_db: the session is opened before the handler runs (Depends) and
\* closed in the finally clause once the request is over.
\* Mutant: db.close() follows the yield without try/finally, so a handler
\* that raises leaves the session open.
get_db_NoFinally(responses) ==
    {[r EXCEPT !.trace = <<"acquire">> \o @ \o
                  (IF r.status = 200 THEN <<"release">> ELSE <<>>)] : r \in responses}

get_db(responses) ==
    {[r EXCEPT !.trace = <<"acquire">> \o @ \o <<"release">>] : r \in responses}

\* The responses the service may give to request rq arriving now.  The
\* parameters of a handler are built before its body runs: a body that does
\* not validate is answered by the validation handler.
Respond(rq) ==
    LET endpoint == Dispatch(rq.method, rq.path)
        cu == get_current_user(rq.header, now)
    IN  CASE endpoint = "404" -> {HTTPException(404, "Not Found", <<>>)}
          [] endpoint = "405" -> {HTTPException(405, "Method Not Allowed", <<>>)}
          [] endpoint = "health" -> {health}
          [] endpoint = "user-company" ->
                IF ValidationErrors(rq.body) # <<>>
                THEN get_db({validation_exception_handler(ValidationErrors(rq.body), <<>>)})
                ELSE get_db(get_user_company_incidents(ParseBody(rq.body), cu))
          [] endpoint = "call-volume" -> get_db(get_call_volume(cu))
          [] endpoint = "dashboard-stats" -> get_db(get_dashboard_stats(cu))
          [] endpoint = "company-incidents" -> get_db(get_company_incidents(cu))
          [] endpoint = "all-incidents" -> get_db(get_all_incidents(cu))
          [] endpoint = "incidents-user" -> get_db(get_user_incidents_summary(cu))
          [] endpoint = "incident-by-id" -> get_db(get_incident_by_id(rq.path[1].text, cu))
          [] endpoint = "assigned-incidents" -> get_db(get_assigned_incidents(cu))
          [] endpoint = "daily-stats" -> get_db(get_manager_daily_stats(cu))
          [] endpoint = "high-priority" -> get_db(get_high_priority_assigned_incidents(cu))

-----------------------------------------------------------------------------
(* State and actions                                                       *)

NoRequest == [method |-> "", path |-> <<>>, header |-> NoHeader, body |-> NoBody, at |-> 0]
NoResponse == MkResp(0, "none", {}, "", <<>>, <<>>, <<>>, NoStats, <<>>)

\* How often a request did what (acquire or release a session).
Occurrences(trace, what) == Cardinality({k \in DOMAIN trace : trace[k] = what})

Arrived(rq) ==
    [method |-> rq.method, path |-> rq.path, header |-> rq.header,
     body |-> rq.body, at |-> now]

Init ==
    /\ store = <<>>
    /\ history = <<>>
    /\ now = StartClock
    /\ req = NoRequest
    /\ resp = NoResponse
    /\ fault = 0
    /\ sessions = 0

\* A client sends a request of the set R and the service answers it.  The
\* model follows one exchange at a time: a new request is taken up once the
\* store has changed, or at the start.
Handle(R) ==
    /\ resp = NoResponse
    /\ \E rq \in R : \E r \in Respond(rq) :
          /\ req' = Arrived(rq)
          /\ resp' = r
          /\ sessions' = sessions + Occurrences(r.trace, "acquire") - Occurrences(r.trace, "release")
    /\ UNCHANGED <<store, history, now, fault>>

\* The client sends the last request once more.
Repeat ==
    /\ resp # NoResponse
    /\ \E r \in Respond(req) :
          /\ req' = Arrived(req)
          /\ resp' = r
          /\ sessions' = sessions + Occurrences(r.trace, "acquire") - Occurrences(r.trace, "release")
    /\ UNCHANGED <<store, history, now, fault>>

\* Another service inserts an incident (the id is generated; kind holds the
\* other columns).  The last exchange is forgotten: it described the store
\* as it was.
Ingest(Kinds, max) ==
    /\ Len(store) < max
    /\ \E k \in Kinds :
          store' = Append(store, [k EXCEPT !.id = Len(store) + 1])
    /\ req' = NoRequest
    /\ resp' = NoResponse
    /\ UNCHANGED <<history, now, fault, sessions>>

\* count incidents of one user and company are inserted at once, the i-th
\* created i days ago (create_test_incidents of the tests).
BulkIngest(user_id, company_id, count, max) ==
    /\ Len(store) + count <= max
    /\ store' = store \o [i \in 1..count |->
                    MkIncident(Len(store) + i, "open", "email", "medium",
                               now - (i - 1) * MinutesPerDay, user_id, company_id, 0)]
    /\ req' = NoRequest
    /\ resp' = NoResponse
    /\ UNCHANGED <<history, now, fault, sessions>>

\* Another service appends a history row to an incident.
IngestHistory(Ids, Times) ==
    /\ Len(history) < MaxHistory
    /\ \E i \in Ids \cap (1..Len(store)), t \in Times :
          history' = Append(history, MkHistory(i, Len(history) + 1, t))
    /\ req' = NoRequest
    /\ resp' = NoResponse
    /\ UNCHANGED <<store, now, fault, sessions>>

\* Time passes.
Tick ==
    /\ now < StartClock + MaxTicks * TickMinutes
    /\ now' = now + TickMinutes
    /\ UNCHANGED <<store, history, req, resp, fault, sessions>>

\* The store goes down: from now on it fails the n-th query of a request.
Break ==
    /\ fault = 0
    /\ \E n \in 1..NumIntervals : fault' = n
    /\ req' = NoRequest
    /\ resp' = NoResponse
    /\ UNCHANGED <<store, history, now, sessions>>

\* The store is back.
Mend ==
    /\ fault # 0
    /\ fault' = 0
    /\ req' = NoRequest
    /\ resp' = NoResponse
    /\ UNCHANGED <<store, history, now, sessions>>

-----------------------------------------------------------------------------
(* The requests and the rows the specifications draw from                  *)

RoleTags == {"user", "manager", "company"}

\* Claims as the issuing service writes them: a UUID in canonical spelling
\* and one of the three role tags.
WellFormedClaims ==
    {MkClaims(StrOfUuid(u), role, NoExp) : u \in Uuids, role \in RoleTags}

\* Other payloads a validly signed token may carry.
OddClaims ==
    {EmptyClaims, MkClaims(StrOfUuid(1), NoRole, NoExp),
     MkClaims(StrOfUuid(1), "admin", NoExp)}
    \cup {MkClaims(NoText, role, NoExp) : role \in RoleTags}
    \cup {MkClaims(BadText, role, NoExp) : role \in RoleTags}
    \cup {MkClaims(UpperOfUuid(1), role, NoExp) : role \in RoleTags}

\* A token that expires when the clock has advanced once.
ExpiresAt == StartClock + TickMinutes
ExpiringClaims == {MkClaims(StrOfUuid(1), role, ExpiresAt) : role \in {"manager", "company"}}

SignedHeaders(Claims) ==
    {MkHeader(p, MkToken("signed", c)) : p \in {"Bearer ", ""}, c \in Claims}

\* Headers no claims come out of.
BadHeaders ==
    {MkHeader(p, MkToken(k, MkClaims(StrOfUuid(1), "manager", NoExp))) :
         p \in {"Bearer ", ""}, k \in {"forged", "garbage"}}
    \cup {MkHeader("bearer ", MkToken("signed", MkClaims(StrOfUuid(1), "manager", NoExp)))}

FixedPaths ==
    {<<Seg("health")>>, <<Seg("user-company")>>, <<Seg("call-volume")>>,
     <<Seg("dashboard-stats")>>, <<Seg("company-incidents")>>,
     <<Seg("all-incidents")>>, <<Seg("incidents-user")>>,
     <<Seg("manager"), Seg("assigned-incidents")>>,
     <<Seg("manager"), Seg("daily-stats")>>,
     <<Seg("manager"), Seg("high-priority-assigned-incidents")>>}

\* Single segments that are no fixed name: the ids of the first incident in
\* two spellings, an id no incident has, and a word.
IdPaths ==
    {<<IdSeg(StrOfUuid(1))>>, <<IdSeg(UpperOfUuid(1))>>, <<IdSeg(StrOfUuid(0))>>,
     <<Seg("not-a-uuid")>>}

UnknownPaths == {<<Seg("manager"), Seg("not-a-route")>>}

ValidBodies(Users, Companies) ==
    {MkBody("json", StrOfUuid(u), StrOfUuid(c)) : u \in Users, c \in Companies}

InvalidBodies ==
    {NoBody, MkBody("json", NoText, StrOfUuid(1)), MkBody("json", StrOfUuid(1), BadText),
     MkBody("json", BadText, NoText)}

GetRequests(Paths, Headers) ==
    {MkRequest("GET", p, h, NoBody) : p \in Paths, h \in Headers}

PostRequests(Paths, Headers, Bodies) ==
    {MkRequest("POST", p, h, b) : p \in Paths, h \in Headers, b \in Bodies}

MkKind(state, channel, priority, creation_date, user_id, company_id, manager_id) ==
    MkIncident(0, state, channel, priority, creation_date, user_id, company_id, manager_id)

-----------------------------------------------------------------------------
(* Specification Spec: every kind of credential on every route, over a     *)
(* small store.                                                            *)

GuardHeaders ==
    {NoHeader} \cup BadHeaders
    \cup SignedHeaders(WellFormedClaims \cup OddClaims \cup ExpiringClaims)

GuardRequests ==
    GetRequests(FixedPaths \cup IdPaths \cup UnknownPaths, GuardHeaders)
    \cup PostRequests({<<Seg("user-company")>>}, GuardHeaders,
                      ValidBodies(Uuids, {1})
                      \cup {MkBody("json", UpperOfUuid(1), StrOfUuid(1))}
                      \cup InvalidBodies)
    \cup PostRequests({<<Seg("call-volume")>>}, {NoHeader}, {NoBody})

GuardKinds ==
    {MkKind("open", "email", "medium", StartClock, 1, 1, 0),
     MkKind("closed", "phone", "high", StartClock, 1, 1, 1)}

Next ==
    \/ Handle(GuardRequests)
    \/ Ingest(GuardKinds, MaxIncidents)
    \/ Tick

Spec == Init /\ [][Next]_vars

-----------------------------------------------------------------------------
(* What the claims speak of, stated from the request alone                 *)

Answered == resp # NoResponse
Endpoint(rq) == Dispatch(rq.method, rq.path)
Protected(rq) == Endpoint(rq) \notin {"health", "404", "405"}

ManagerEndpoints ==
    {"all-incidents", "incident-by-id", "assigned-incidents", "daily-stats", "high-priority"}
CompanyEndpoints == {"call-volume", "dashboard-stats", "company-incidents"}

\* The header is missing, or what it holds is no validly signed, unexpired
\* token (alone or after "Bearer ") at the time the request arrived.
CredentialInvalid(rq) ==
    \/ ~rq.header.present
    \/ rq.header.prefix \notin {"", "Bearer "}
    \/ rq.header.token.kind # "signed"
    \/ (rq.header.token.claims.exp # NoExp /\ rq.header.token.claims.exp <= rq.at)

ClaimsOf(rq) == rq.header.token.claims

\* The body of POST /user-company holds two UUIDs.
BodyValid(rq) ==
    Endpoint(rq) = "user-company" =>
        /\ rq.body.kind = "json"
        /\ IsUuidText(rq.body.user_id)
        /\ IsUuidText(rq.body.company_id)

\* The policy table: the role or ownership rule of each endpoint.
RuleHolds(rq) ==
    LET e == Endpoint(rq)
        c == ClaimsOf(rq)
    IN  CASE e = "user-company" ->
                c.user_type = "manager" \/ c.sub = StrOfUuid(ParseUuid(rq.body.user_id))
          [] e \in ManagerEndpoints -> c.user_type = "manager"
          [] e \in CompanyEndpoints -> c.user_type = "company"
          [] e = "incidents-user" -> c.user_type = "user"
          [] OTHER -> TRUE

Queries == {"q_incident", "q_history"}

-----------------------------------------------------------------------------
(* C1 *)

\* C1 as stated: on every protected endpoint a request whose credential is
\* missing or does not decode is answered 401 "Authentication required",
\* whatever its body or path parameter holds.
C1_Original ==
    (Answered /\ Protected(req) /\ CredentialInvalid(req)) =>
        (resp.status = 401 /\ resp.detail = AuthRequired)

\* C1 amended: on every protected endpoint a request whose credential is
\* missing or does not decode is answered 401 "Authentication required",
\* whatever its path parameter holds, provided the body of POST
\* /user-company validates; a body that does not validate is answered 400
\* before the credential is looked at.
C1_Unauthenticated401 ==
    (Answered /\ Protected(req) /\ CredentialInvalid(req)) =>
        IF BodyValid(req)
        THEN resp.status = 401 /\ resp.kind = "detail" /\ resp.detail = AuthRequired
        ELSE resp.status = 400

C1_Witness ==
    /\ Answered
    /\ Endpoint(req) = "incident-by-id"
    /\ req.header.present /\ req.header.prefix = "Bearer "
    /\ req.header.token.kind = "forged"
    /\ resp.status = 401

-----------------------------------------------------------------------------
(* C2 *)

\* C2 as stated: on every protected endpoint a request with decoded claims
\* that fail the endpoint's rule is answered 403 "Not authorized to access
\* this data".  Stated here for claims that carry both fields.
C2_Original ==
    (/\ Answered /\ Protected(req) /\ ~CredentialInvalid(req) /\ BodyValid(req)
     /\ ClaimsOf(req).sub # NoText /\ ClaimsOf(req).user_type # NoRole
     /\ ~RuleHolds(req)) =>
        (resp.status = 403 /\ resp.detail = NotAuthorized)

\* C2 amended: a request with decoded claims that fail the endpoint's rule
\* is answered 403; the message is "Only company users can access this
\* endpoint" on the three company endpoints and "Not authorized to access
\* this data" on the others.  Claims with no field at all are answered 401;
\* claims without user_type (or, on /user-company, a non-manager without
\* sub) get the company endpoints' 403 there and a 500 elsewhere.
C2_Forbidden ==
    (/\ Answered /\ Protected(req) /\ ~CredentialInvalid(req) /\ BodyValid(req)
     /\ ~RuleHolds(req)) =>
        LET c == ClaimsOf(req)
            e == Endpoint(req)
        IN  IF c = EmptyClaims
            THEN resp.status = 401 /\ resp.detail = AuthRequired
            ELSE IF e \in CompanyEndpoints
            THEN resp.status = 403 /\ resp.kind = "detail" /\ resp.detail = OnlyCompany
            ELSE IF c.user_type = NoRole \/ (e = "user-company" /\ c.sub = NoText)
            THEN resp.status = 500
            ELSE resp.status = 403 /\ resp.kind = "detail" /\ resp.detail = NotAuthorized

C2_Witness ==
    /\ Answered
    /\ Endpoint(req) = "dashboard-stats"
    /\ ~CredentialInvalid(req)
    /\ ClaimsOf(req) = MkClaims(StrOfUuid(1), "user", NoExp)
    /\ resp.status = 403 /\ resp.detail = OnlyCompany

-----------------------------------------------------------------------------
(* C3 *)

\* C3 as stated: POST /user-company with valid claims passes the guard if
\* and only if the role is manager or the subject equals the requested
\* user_id; in every other case the response is exactly 403.
C3_Original ==
    (/\ Answered /\ Endpoint(req) = "user-company" /\ ~CredentialInvalid(req)
     /\ ClaimsOf(req) # EmptyClaims /\ BodyValid(req)) =>
        IF RuleHolds(req) THEN resp.status = 200 ELSE resp.status = 403

-----------------------------------------------------------------------------
(* C4 *)

\* C4: on a protected endpoint a request answered 401 or 403 issued no
\* query, every query comes after the guard has passed, and a request that
\* issued a query carried claims that satisfy the endpoint's rule.
C4_GuardBeforeQueries ==
    (Answered /\ Protected(req)) =>
        /\ resp.status \in {401, 403} =>
              \A k \in DOMAIN resp.trace : resp.trace[k] \notin Queries
        /\ \A k \in DOMAIN resp.trace :
              resp.trace[k] \in Queries =>
                  /\ \E j \in 1..(k - 1) : resp.trace[j] = "guard_pass"
                  /\ ~CredentialInvalid(req) /\ BodyValid(req) /\ RuleHolds(req)

C4_Witness ==
    /\ Answered
    /\ Endpoint(req) = "all-incidents"
    /\ store # <<>>
    /\ resp.status = 403
    /\ resp.trace = <<"acquire", "release">>

-----------------------------------------------------------------------------
(* C8 *)

\* C8 as stated: GET /{incident_id} with manager claims answers 404 for every
\* requested id that matches no incident, and for an existing id returns
\* that incident with exactly its history rows, oldest first.
C8_Original ==
    (/\ Answered /\ Endpoint(req) = "incident-by-id" /\ ~CredentialInvalid(req)
     /\ ClaimsOf(req).user_type = "manager") =>
        LET t == req.path[1].text
            matching == {r \in Rows(store) : IsUuidText(t) /\ r.id = ParseUuid(t)}
        IN  IF matching = {} THEN resp.status = 404
            ELSE /\ resp.status = 200
                 /\ Len(resp.items) = 1
                 /\ resp.items[1].id = ParseUuid(t)
                 /\ {resp.items[1].history[k].description :
                        k \in DOMAIN resp.items[1].history}
                      = {h.description : h \in HistoryRows(ParseUuid(t))}
                 /\ Len(resp.items[1].history) = Cardinality(HistoryRows(ParseUuid(t)))
                 /\ \A j, k \in DOMAIN resp.items[1].history :
                       j < k => resp.items[1].history[j].created_at
                                  <= resp.items[1].history[k].created_at

-----------------------------------------------------------------------------
(* C10 *)

\* C10 as stated: every response that is not 2xx carries the envelope with
\* message or mssg, details and version.
C10_Original ==
    (Answered /\ resp.status \notin 200..299) =>
        /\ {"details", "version"} \subseteq resp.keys
        /\ ("message" \in resp.keys \/ "mssg" \in resp.keys)

InvalidFields(body) ==
    {f \in {"user_id", "company_id"} :
        ~IsUuidText(IF f = "user_id" THEN body.user_id ELSE body.company_id)}

\* C10 amended: only a validation failure (status 400) carries the envelope
\* {message, details, version}, its details holding one {location, message,
\* type} entry per missing or invalid field of the body (a single entry when
\* there is no body); every error the handlers raise (401, 403, 404, the 500
\* of /call-volume) carries {detail: <message>} alone, and an error no
\* handler catches is a plain-text 500.
C10_ErrorBodies ==
    (Answered /\ resp.status \notin 200..299) =>
        IF resp.status = 400
        THEN /\ Endpoint(req) = "user-company" /\ ~BodyValid(req)
             /\ resp.keys = {"message", "details", "version"}
             /\ resp.detail = "Validation Error"
             /\ \A k \in DOMAIN resp.errors :
                   DOMAIN resp.errors[k] = {"location", "message", "type"}
             /\ IF req.body.kind = "none"
                THEN Len(resp.errors) = 1 /\ resp.errors[1].location = <<"body">>
                ELSE /\ Len(resp.errors) = Cardinality(InvalidFields(req.body))
                     /\ \A f \in InvalidFields(req.body) :
                           \E k \in DOMAIN resp.errors :
                               resp.errors[k].location = <<"body", f>>
        ELSE \/ resp.kind = "detail" /\ resp.keys = {"detail"}
             \/ resp.kind = "text" /\ resp.keys = {} /\ resp.status = 500

C10_Witness ==
    /\ Answered
    /\ resp.status = 400
    /\ req.body = MkBody("json", BadText, NoText)
    /\ Len(resp.errors) = 2


-----------------------------------------------------------------------------
(* Specification SpecLists: the two capped lists, over a store that holds  *)
(* more matching rows than either cap, some of them of equal date at the   *)
(* place where the cap cuts.                                               *)

BulkCount == UserCompanyLimit + ExtraBulk

\* Single rows: as old as the 10th and the 20th row of the bulk, or as new
\* as its first, of the bulk's user and company or of others.
ListKinds ==
    {MkKind("open", "phone", "high", StartClock - (CompanyLimit - 1) * MinutesPerDay, 1, 1, 1),
     MkKind("closed", "email", "low", StartClock - (UserCompanyLimit - 1) * MinutesPerDay, 1, 1, 0),
     MkKind("open", "email", "medium", StartClock, 1, 1, 0),
     MkKind("open", "phone", "high", StartClock - (CompanyLimit - 1) * MinutesPerDay, 2, 1, 0),
     MkKind("closed", "email", "low", StartClock - (UserCompanyLimit - 1) * MinutesPerDay, 1, 2, 1),
     MkKind("open", "chat", "medium", StartClock, 2, 2, 0)}

ListHeaders ==
    {MkHeader("Bearer ", MkToken("signed", c)) :
         c \in {MkClaims(StrOfUuid(1), "manager", NoExp),
                MkClaims(NoText, "manager", NoExp),
                MkClaims(StrOfUuid(1), "user", NoExp),
                MkClaims(StrOfUuid(2), "user", NoExp),
                MkClaims(StrOfUuid(1), "company", NoExp),
                MkClaims(StrOfUuid(2), "company", NoExp),
                MkClaims(UpperOfUuid(1), "company", NoExp),
                MkClaims(BadText, "company", NoExp),
                MkClaims(NoText, "company", NoExp)}}

ListRequests ==
    PostRequests({<<Seg("user-company")>>}, ListHeaders,
                 ValidBodies({1, 2}, {1, 2}) \cup {MkBody("json", UpperOfUuid(1), StrOfUuid(1))})
    \cup GetRequests({<<Seg("company-incidents")>>}, ListHeaders)

\* At most MaxIncidents single rows, before or after the bulk.
ListCap == MaxIncidents + (IF Len(store) >= BulkCount THEN BulkCount ELSE 0)

NextLists ==
    \/ Handle(ListRequests)
    \/ BulkIngest(1, 1, BulkCount, BulkCount + MaxIncidents)
    \/ Ingest(ListKinds, ListCap)

SpecLists == Init /\ [][NextLists]_vars

-----------------------------------------------------------------------------
(* C5, C6 *)

Min(a, b) == IF a <= b THEN a ELSE b
GuardPassed == \E k \in DOMAIN resp.trace : resp.trace[k] = "guard_pass"

\* items shows n rows of the set match, each once, shaped by Shape, newest
\* first, and no row left out is newer than a row shown.
MostRecent(items, match, Shape(_), n) ==
    /\ Len(items) = n
    /\ \A k \in DOMAIN items : \E r \in match : Shape(r) = items[k]
    /\ \A j, k \in DOMAIN items : j # k => items[j].id # items[k].id
    /\ \A k \in 1..(Len(items) - 1) :
          items[k].creation_date >= items[k + 1].creation_date
    /\ \A r \in match :
          (\A k \in DOMAIN items : items[k].id # r.id) =>
              \A k \in DOMAIN items : r.creation_date <= items[k].creation_date

\* Some row of match is left out although it is as new as the last row shown.
CutThroughTie(items, match) ==
    /\ items # <<>>
    /\ \E r \in match :
          /\ \A k \in DOMAIN items : items[k].id # r.id
          /\ r.creation_date = items[Len(items)].creation_date

RequestedRows ==
    {r \in Rows(store) :
        /\ r.user_id = ParseUuid(req.body.user_id)
        /\ r.company_id = ParseUuid(req.body.company_id)}

\* C5: a POST /user-company that the guard lets through is answered 200 with
\* min(20, number of matching incidents) incidents, each with the requested
\* user id and company id, ordered by creation date descending; the ones
\* returned are the most recent ones, and no match gives the empty list.
C5_UserCompanyList ==
    (Answered /\ Endpoint(req) = "user-company" /\ GuardPassed) =>
        /\ resp.status = 200
        /\ MostRecent(resp.items, RequestedRows, IncidentResponse,
                      Min(UserCompanyLimit, Cardinality(RequestedRows)))

\* More than 20 rows match, and the cap cuts between two rows of one date.
C5_Witness ==
    /\ Answered /\ Endpoint(req) = "user-company" /\ GuardPassed
    /\ ClaimsOf(req).user_type = "user"
    /\ Cardinality(RequestedRows) > UserCompanyLimit
    /\ Len(resp.items) = UserCompanyLimit
    /\ CutThroughTie(resp.items, RequestedRows)
    /\ \E r \in Rows(store) : r \notin RequestedRows

SubjectRows ==
    {r \in Rows(store) : r.company_id = ParseUuid(ClaimsOf(req).sub)}

\* C6: GET /company-incidents never returns more than 10 incidents; what it
\* returns to company claims are incidents of the company the subject
\* names, ordered by creation date descending, all of them when the company
\* has at most 10 and else the 10 most recent.
C6_CompanyList ==
    (Answered /\ Endpoint(req) = "company-incidents") =>
        /\ Len(resp.items) <= CompanyLimit
        /\ resp.status = 200 =>
              /\ ClaimsOf(req).user_type = "company"
              /\ MostRecent(resp.items, SubjectRows, IncidentDetailedResponse,
                            Min(CompanyLimit, Cardinality(SubjectRows)))

\* The company has more than 10 incidents, and the cap cuts between two
\* rows of one date.
C6_Witness ==
    /\ Answered /\ Endpoint(req) = "company-incidents" /\ resp.status = 200
    /\ Cardinality(SubjectRows) > CompanyLimit
    /\ Len(resp.items) = CompanyLimit
    /\ CutThroughTie(resp.items, SubjectRows)
    /\ \E r \in Rows(store) : r \notin SubjectRows

-----------------------------------------------------------------------------
(* Specification SpecVolume: /call-volume over incidents created around    *)
(* the interval bounds of two days, while the clock moves from one day to  *)
(* the next.                                                               *)

DayOne == MinutesPerDay
DayTwo == 2 * MinutesPerDay
AtClock(day, hour, minute) == day + hour * MinutesPerHour + minute

VolumeKinds ==
    {MkKind("open", "phone", "medium", t, 1, 1, 0) :
         t \in {AtClock(DayOne, 0, 0), AtClock(DayOne, 8, 59), AtClock(DayOne, 9, 0),
                AtClock(DayOne, 9, 29), AtClock(DayOne, 12, 0), AtClock(DayOne, 23, 59),
                AtClock(DayOne, 0, 0) - 1, AtClock(DayTwo, 9, 0)}}
    \cup {MkKind("open", "email", "medium", AtClock(DayOne, 9, 0), 1, 1, 0),
          MkKind("open", "phone", "medium", AtClock(DayOne, 9, 0), 1, 2, 0)}

VolumeHeaders ==
    {MkHeader("Bearer ", MkToken("signed", c)) :
         c \in {MkClaims(StrOfUuid(1), "company", NoExp),
                MkClaims(StrOfUuid(2), "company", NoExp),
                MkClaims(UpperOfUuid(1), "company", NoExp),
                MkClaims(BadText, "company", NoExp),
                MkClaims(NoText, "company", NoExp),
                MkClaims(StrOfUuid(1), "user", NoExp)}}

VolumeRequests == GetRequests({<<Seg("call-volume")>>}, VolumeHeaders)

NextVolume ==
    \/ Handle(VolumeRequests)
    \/ Ingest(VolumeKinds, MaxIncidents)
    \/ Tick

SpecVolume == Init /\ [][NextVolume]_vars

-----------------------------------------------------------------------------
(* C7 *)

\* The day the request arrived on began at this minute.
StartOfToday == (req.at \div MinutesPerDay) * MinutesPerDay

\* The phone incidents of the subject's company created in the i-th
\* interval of three hours of that day, i = 0..7.
InBucket(i) ==
    {r \in Rows(store) :
        /\ IsUuidText(ClaimsOf(req).sub)
        /\ r.company_id = ParseUuid(ClaimsOf(req).sub)
        /\ r.channel = "phone"
        /\ StartOfToday + 3 * i * MinutesPerHour <= r.creation_date
        /\ r.creation_date < StartOfToday + 3 * (i + 1) * MinutesPerHour}

EightCounts ==
    /\ resp.status = 200
    /\ Len(resp.counts) = 8
    /\ \A i \in 0..7 : resp.counts[i + 1] = Cardinality(InBucket(i))

\* C7 as stated: GET /call-volume with company-role claims returns eight
\* counts, the i-th the number of phone incidents of the subject's company
\* created in [start of today + 3i hours, start of today + 3(i+1) hours).
C7_Original ==
    (/\ Answered /\ Endpoint(req) = "call-volume" /\ ~CredentialInvalid(req)
     /\ ClaimsOf(req).user_type = "company") => EightCounts

\* C7 for company claims whose subject spells a UUID: the counts are as
\* stated.
C7_UuidSubject ==
    (/\ Answered /\ Endpoint(req) = "call-volume" /\ ~CredentialInvalid(req)
     /\ ClaimsOf(req).user_type = "company" /\ IsUuidText(ClaimsOf(req).sub))
        => EightCounts

\* Two phone incidents of [9:00, 9:30) and one of 12:00 sharp: bucket 3
\* holds two, bucket 4 one; on the next day all buckets but one are empty.
C7_SameDay ==
    /\ Answered /\ Endpoint(req) = "call-volume" /\ resp.status = 200
    /\ Len(store) = MaxIncidents
    /\ resp.counts[4] = 2

C7_BoundaryLater ==
    /\ Answered /\ Endpoint(req) = "call-volume" /\ resp.status = 200
    /\ \E r \in Rows(store) : r.creation_date = AtClock(StartOfToday, 12, 0)
    /\ resp.counts[4] = 0 /\ resp.counts[5] = 1

-----------------------------------------------------------------------------
(* Specification SpecRepeat: a GET request is sent, time passes, and the   *)
(* same request is sent again while the store is as it was.                *)

RepeatKinds ==
    {MkKind("closed", "phone", "high", AtClock(DayOne, 9, 0), 1, 1, 1),
     MkKind("open", "email", "high", AtClock(DayOne, 9, 0), 1, 1, 1),
     MkKind("open", "phone", "low", StartClock - (CompanyLimit - 1) * MinutesPerDay, 2, 1, 0)}

RepeatHeaders ==
    {MkHeader("Bearer ", MkToken("signed", c)) :
         c \in {MkClaims(StrOfUuid(1), "manager", NoExp),
                MkClaims(StrOfUuid(1), "company", NoExp),
                MkClaims(StrOfUuid(1), "user", NoExp),
                MkClaims(StrOfUuid(1), "company", ExpiresAt)}}

RepeatRequests ==
    GetRequests(FixedPaths \cup {<<IdSeg(StrOfUuid(1))>>, <<IdSeg(StrOfUuid(0))>>},
                RepeatHeaders)

RepeatBulk == CompanyLimit + ExtraBulk
RepeatSingles == MaxIncidents - 1
RepeatCap == RepeatSingles + (IF Len(store) >= RepeatBulk THEN RepeatBulk ELSE 0)

NextRepeat ==
    \/ Handle(RepeatRequests)
    \/ Repeat
    \/ Ingest(RepeatKinds, RepeatCap)
    \/ BulkIngest(1, 1, RepeatBulk, RepeatBulk + RepeatSingles)
    \/ IngestHistory({1}, {StartClock})
    \/ Tick

SpecRepeat == Init /\ [][NextRepeat]_vars

-----------------------------------------------------------------------------
(* C9 *)

Count(seq, Same(_, _), x) == Cardinality({k \in DOMAIN seq : Same(seq[k], x)})

\* Two history lists hold the same rows at the same times.
SameHistory(g, h) ==
    /\ Len(g) = Len(h)
    /\ \A k \in DOMAIN g : g[k].created_at = h[k].created_at
    /\ \A k \in DOMAIN g : Count(g, =, g[k]) = Count(h, =, g[k])

\* Two rows of a body are the same row, whatever the order of the history
\* rows of equal time.
SameRow(x, y) ==
    IF "history" \in DOMAIN x
    THEN /\ [x EXCEPT !.history = <<>>] = [y EXCEPT !.history = <<>>]
         /\ SameHistory(x.history, y.history)
    ELSE x = y

\* Two lists hold the same rows, and the same dates at every place.
SameRows(a, b) ==
    /\ Len(a) = Len(b)
    /\ \A k \in DOMAIN a : a[k].creation_date = b[k].creation_date
    /\ \A k \in DOMAIN a : Count(a, SameRow, a[k]) = Count(b, SameRow, a[k])

\* The same, but for the rows of the oldest date shown.
SameRowsAboveCut(a, b) ==
    /\ Len(a) = Len(b)
    /\ \A k \in DOMAIN a : a[k].creation_date = b[k].creation_date
    /\ \A k \in DOMAIN a :
          a[k].creation_date > a[Len(a)].creation_date =>
              Count(a, SameRow, a[k]) = Count(b, SameRow, a[k])

SameButRows(r, q) ==
    /\ r.status = q.status /\ r.kind = q.kind /\ r.keys = q.keys
    /\ r.detail = q.detail /\ r.errors = q.errors
    /\ r.counts = q.counts /\ r.stats = q.stats

\* C9 as stated: a GET request sent again while the store is unchanged gets
\* the body it got before, apart from the order of rows of equal date.
C9_Original ==
    [][Repeat => (SameButRows(resp, resp') /\ SameRows(resp.items, resp'.items))]_vars

Capped(rq) == Endpoint(rq) = "company-incidents"

\* C9: a GET request sent again while the store is unchanged gets the body
\* it got before, apart from the order of rows of equal date, provided the
\* token has not expired in between and, on /call-volume, both requests
\* arrive on the same day; where the cap of /company-incidents cuts through
\* rows of equal date, which of these rows are shown may differ.
C9_RepeatedGet ==
    [][(/\ Repeat
        /\ CredentialInvalid(req) = CredentialInvalid(req')
        /\ Endpoint(req) = "call-volume" =>
               req.at \div MinutesPerDay = req'.at \div MinutesPerDay)
       => /\ SameButRows(resp, resp')
          /\ IF Capped(req) THEN SameRowsAboveCut(resp.items, resp'.items)
                            ELSE SameRows(resp.items, resp'.items)]_vars

\* A request that arrives after the clock has advanced is answered with
\* the ten newest incidents of a company, one of two incidents of the
\* oldest date shown being left out.
C9_Witness ==
    /\ Answered /\ req.at > StartClock
    /\ Endpoint(req) = "company-incidents" /\ resp.status = 200
    /\ Len(resp.items) = CompanyLimit
    /\ CutThroughTie(resp.items, SubjectRows)

-----------------------------------------------------------------------------
(* C12 *)

\* C12 as stated: on every protected endpoint, whatever claims a validly
\* signed token carries, the request is answered 401 or 403 or passes the
\* guard and goes on to its first store query; it fails in no other way.
C12_Original ==
    (Answered /\ Protected(req) /\ ~CredentialInvalid(req) /\ BodyValid(req)) =>
        \/ resp.status \in {401, 403}
        \/ /\ GuardPassed
           /\ \E k \in DOMAIN resp.trace : resp.trace[k] \in Queries

-----------------------------------------------------------------------------
(* C16 *)

\* The paths declared with a fixed name, by the name of the handler that a
\* GET of the path is declared for ("none": the path is declared for POST).
FixedHandler(path) ==
    CASE path = <<Seg("health")>> -> "health"
      [] path = <<Seg("user-company")>> -> "none"
      [] path = <<Seg("call-volume")>> -> "call-volume"
      [] path = <<Seg("dashboard-stats")>> -> "dashboard-stats"
      [] path = <<Seg("company-incidents")>> -> "company-incidents"
      [] path = <<Seg("all-incidents")>> -> "all-incidents"
      [] path = <<Seg("incidents-user")>> -> "incidents-user"
      [] path = <<Seg("manager"), Seg("assigned-incidents")>> -> "assigned-incidents"
      [] path = <<Seg("manager"), Seg("daily-stats")>> -> "daily-stats"
      [] path = <<Seg("manager"), Seg("high-priority-assigned-incidents")>> -> "high-priority"
      [] OTHER -> "unknown"

\* What the handler of that name answers to the credential of the request.
AnswersOf(name, rq) ==
    LET cu == get_current_user(rq.header, rq.at) IN
    CASE name = "health" -> {health}
      [] name = "call-volume" -> get_db(get_call_volume(cu))
      [] name = "dashboard-stats" -> get_db(get_dashboard_stats(cu))
      [] name = "company-incidents" -> get_db(get_company_incidents(cu))
      [] name = "all-incidents" -> get_db(get_all_incidents(cu))
      [] name = "incidents-user" -> get_db(get_user_incidents_summary(cu))
      [] name = "assigned-incidents" -> get_db(get_assigned_incidents(cu))
      [] name = "daily-stats" -> get_db(get_manager_daily_stats(cu))
      [] name = "high-priority" -> get_db(get_high_priority_assigned_incidents(cu))
      [] name = "incident-by-id" -> get_db(get_incident_by_id(rq.path[1].text, cu))

\* The response is the work of get_incident_by_id and of no guard before it.
TreatedAsId ==
    /\ Len(req.path) = 1
    /\ resp \in AnswersOf("incident-by-id", req)

\* C16 as stated: a GET of a fixed path is never handled as an incident id;
\* only single segments that equal none of the fixed names are.
C16_Original ==
    (Answered /\ req.method = "GET" /\ req.at = now
     /\ Endpoint(req) = "incident-by-id") =>
        FixedHandler(req.path) = "unknown"

\* C16: a GET of a path that a GET handler is declared for is answered by
\* that handler; a GET of any other single segment, the POST-only name
\* user-company among them, is answered by get_incident_by_id with the
\* segment as id; a GET of anything else is answered 404.
C16_FixedPathsFirst ==
    (Answered /\ req.method = "GET" /\ req.at = now) =>
        LET own == FixedHandler(req.path) IN
        IF own \notin {"none", "unknown"} THEN resp \in AnswersOf(own, req)
        ELSE IF Len(req.path) = 1 THEN TreatedAsId
        ELSE resp.status = 404

\* A company reads its dashboard figures; the answer is none that
\* get_incident_by_id gives.
C16_Witness ==
    /\ Answered /\ req.method = "GET" /\ req.at = now
    /\ req.path = <<Seg("dashboard-stats")>>
    /\ resp.status = 200
    /\ store # <<>>
    /\ ~TreatedAsId

-----------------------------------------------------------------------------
(* Specification SpecOutage: requests of every outcome while the store     *)
(* fails one of the queries of a request.                                  *)

OutageKinds ==
    {MkKind("closed", "phone", "high", AtClock(DayOne, 9, 0), 1, 1, 1),
     MkKind("open", "email", "high", AtClock(DayOne, 12, 0), 1, 1, 1)}

OutageHeaders ==
    {NoHeader}
    \cup {MkHeader("Bearer ", MkToken("signed", c)) :
             c \in {MkClaims(StrOfUuid(1), "manager", NoExp),
                    MkClaims(StrOfUuid(1), "company", NoExp),
                    MkClaims(StrOfUuid(1), "user", NoExp),
                    MkClaims(BadText, "company", NoExp),
                    MkClaims(NoText, "manager", NoExp)}}

OutageRequests ==
    GetRequests(FixedPaths \cup {<<IdSeg(StrOfUuid(1))>>, <<IdSeg(StrOfUuid(0))>>}
                    \cup UnknownPaths,
                OutageHeaders)
    \cup PostRequests({<<Seg("user-company")>>}, OutageHeaders,
                      ValidBodies({1}, {1}) \cup {NoBody})

NextOutage ==
    \/ Handle(OutageRequests)
    \/ Ingest(OutageKinds, MaxIncidents)
    \/ IngestHistory({1}, {StartClock})
    \/ Break
    \/ Mend

SpecOutage == Init /\ [][NextOutage]_vars

-----------------------------------------------------------------------------
(* C11 *)

AggregationEndpoints == {"call-volume", "dashboard-stats", "daily-stats"}

\* A query of the request failed in the store.
QueryFailed == \E k \in DOMAIN resp.trace : resp.trace[k] = "store_error"

\* The body shows the message of the store's error.
SurfacesStoreError ==
    /\ resp.kind = "detail"
    /\ resp.detail \in {"Database error: connection to server failed",
                        "Database error: invalid input syntax for type uuid"}

\* The request ended with the failed query: no query follows the error, the
\* queries issued are the ones up to the failed one (the first one when the
\* subject spells no UUID), and the answer is a 500 that shows no count and
\* no row.
EndsAtFailure ==
    /\ resp.status = 500
    /\ resp.counts = <<>> /\ resp.items = <<>> /\ resp.stats = NoStats
    /\ \A k \in DOMAIN resp.trace :
          resp.trace[k] = "store_error" =>
              /\ k = Len(resp.trace) - 1
              /\ resp.trace[k - 1] \in Queries
    /\ (fault # 0 /\ IsUuidText(ClaimsOf(req).sub)) =>
          Cardinality({k \in DOMAIN resp.trace : resp.trace[k] \in Queries}) = fault

\* C11 as stated: in call-volume, dashboard-stats and daily-stats a query
\* that fails after the guard has passed ends the request with a 500 whose
\* body shows the store's error message, without retry or partial result.
C11_Original ==
    (Answered /\ Endpoint(req) \in AggregationEndpoints /\ QueryFailed) =>
        EndsAtFailure /\ SurfacesStoreError

\* C11: such a failure ends the request at once with a 500 and no partial
\* result, the failed query not being retried; the body shows the store's
\* error message in call-volume, and is the plain text "Internal Server
\* Error" in dashboard-stats and daily-stats.
C11_StoreFailure ==
    (Answered /\ Endpoint(req) \in AggregationEndpoints /\ QueryFailed) =>
        /\ GuardPassed
        /\ EndsAtFailure
        /\ IF Endpoint(req) = "call-volume" THEN SurfacesStoreError
           ELSE resp.kind = "text" /\ resp.detail = "Internal Server Error"

\* The third count query of call-volume fails over a store that holds a
\* phone incident of the first interval queried.
C11_Witness ==
    /\ Answered /\ Endpoint(req) = "call-volume" /\ QueryFailed
    /\ fault = 3
    /\ \E r \in Rows(store) : r.channel = "phone" /\ r.company_id = 1
    /\ resp.trace = <<"acquire", "guard_pass", "q_incident", "q_incident", "q_incident",
                      "store_error", "release">>

-----------------------------------------------------------------------------
(* C13 *)

\* C13: a request that acquires a store session releases it once, when it
\* completes, however it completes; no session stays open.
C13_SessionReleased ==
    /\ sessions = 0
    /\ Answered =>
          /\ Occurrences(resp.trace, "acquire") = Occurrences(resp.trace, "release")
          /\ Occurrences(resp.trace, "acquire") = (IF Protected(req) THEN 1 ELSE 0)
          /\ Protected(req) =>
                /\ resp.trace[1] = "acquire"
                /\ resp.trace[Len(resp.trace)] = "release"

\* The history query of an incident that exists fails.
C13_Witness ==
    /\ Answered /\ Endpoint(req) = "incident-by-id" /\ QueryFailed
    /\ resp.status = 500
    /\ resp.trace = <<"acquire", "guard_pass", "q_incident", "q_history",
                      "store_error", "release">>
    /\ sessions = 0

-----------------------------------------------------------------------------
(* Specification SpecManager: the manager endpoints over incidents of two  *)
(* managers and of none, of both priorities and states, created today and  *)
(* days ago, with history rows of equal and of different times.            *)

ManagerKinds ==
    {MkKind("closed", "phone", "high", AtClock(DayOne, 9, 0), 1, 1, 1),
     MkKind("open", "email", "high", AtClock(DayOne, 9, 0), 1, 1, 1),
     MkKind("closed", "email", "high", AtClock(DayOne, 9, 0) - 3 * MinutesPerDay, 1, 1, 1),
     MkKind("closed", "email", "low", AtClock(DayOne, 9, 0), 1, 1, 1),
     MkKind("closed", "phone", "high", AtClock(DayOne, 9, 0), 1, 1, 2),
     MkKind("closed", "email", "high", AtClock(DayOne, 9, 0), 1, 1, 0)}

ManagerHeaders ==
    {MkHeader("Bearer ", MkToken("signed", c)) :
         c \in {MkClaims(StrOfUuid(1), "manager", NoExp),
                MkClaims(StrOfUuid(2), "manager", NoExp),
                MkClaims(UpperOfUuid(1), "manager", NoExp),
                MkClaims(BadText, "manager", NoExp),
                MkClaims(NoText, "manager", NoExp),
                MkClaims(StrOfUuid(1), "company", NoExp)}}

ManagerRequests ==
    GetRequests({<<Seg("manager"), Seg("daily-stats")>>,
                 <<Seg("manager"), Seg("high-priority-assigned-incidents")>>},
                ManagerHeaders)

NextManager ==
    \/ Handle(ManagerRequests)
    \/ Ingest(ManagerKinds, MaxIncidents)
    \/ IngestHistory({1, 2}, {StartClock - 1, StartClock})

SpecManager == Init /\ [][NextManager]_vars

-----------------------------------------------------------------------------
(* C14 *)

ManagerClaims ==
    /\ Answered /\ ~CredentialInvalid(req)
    /\ ClaimsOf(req).user_type = "manager"

\* The incidents of the manager the subject names.
SubjectAssigned ==
    {r \in Rows(store) :
        IsUuidText(ClaimsOf(req).sub) /\ r.manager_id = ParseUuid(ClaimsOf(req).sub)}

\* hs shows all and only the history rows of incident id, oldest first.
OwnHistory(hs, id) ==
    LET own == {h \in Rows(history) : h.incident_id = id} IN
    /\ Len(hs) = Cardinality(own)
    /\ \A h \in own : \E k \in DOMAIN hs : hs[k] = IncidentHistoryResponse(h)
    /\ \A k \in 1..(Len(hs) - 1) : hs[k].created_at <= hs[k + 1].created_at

\* The answer is the list of the subject's incidents of high priority,
\* each once, newest first, each with its own history.
HighPriorityList ==
    LET want == {r \in SubjectAssigned : r.priority = "high"} IN
    /\ resp.status = 200
    /\ Len(resp.items) = Cardinality(want)
    /\ \A r \in want : \E k \in DOMAIN resp.items :
          [resp.items[k] EXCEPT !.history = <<>>] = IncidentDetailedWithHistoryResponse(r, <<>>)
    /\ \A k \in 1..(Len(resp.items) - 1) :
          resp.items[k].creation_date >= resp.items[k + 1].creation_date
    /\ \A k \in DOMAIN resp.items : OwnHistory(resp.items[k].history, resp.items[k].id)

\* C14 as stated: GET /manager/high-priority-assigned-incidents with manager
\* claims returns exactly the subject's incidents of high priority, newest
\* first, each with all and only its own history rows, oldest first.
C14_Original ==
    (ManagerClaims /\ Endpoint(req) = "high-priority") => HighPriorityList

\* C14 for manager claims whose subject spells a UUID.
C14_UuidSubject ==
    (ManagerClaims /\ Endpoint(req) = "high-priority" /\ IsUuidText(ClaimsOf(req).sub))
        => HighPriorityList

\* Two incidents are returned, one with two history rows and one with
\* none, while the store holds an incident that is not returned.
C14_TwoWithHistory ==
    /\ ManagerClaims /\ Endpoint(req) = "high-priority" /\ resp.status = 200
    /\ Len(resp.items) = 2
    /\ \E k \in DOMAIN resp.items : Len(resp.items[k].history) = 2
    /\ \E k \in DOMAIN resp.items : resp.items[k].history = <<>>

-----------------------------------------------------------------------------
(* C15 *)

\* The answer counts the subject's closed incidents of any day and shows
\* the two fixed figures.
DailyStats ==
    /\ resp.status = 200
    /\ resp.keys = {"incidentsHandled", "avgResolutionTime", "customerSatisfaction"}
    /\ resp.counts = <<Cardinality({r \in SubjectAssigned : r.state = "closed"})>>
    /\ resp.stats.avgResolutionTime = "15 mins"
    /\ resp.stats.customerSatisfactionTenths = 48

\* C15 as stated: GET /manager/daily-stats with manager claims returns the
\* number of the subject's closed incidents over all time, and "15 mins"
\* and 4.8 whatever the store holds.
C15_Original ==
    (ManagerClaims /\ Endpoint(req) = "daily-stats") => DailyStats

\* C15 for manager claims whose subject spells a UUID.
C15_UuidSubject ==
    (ManagerClaims /\ Endpoint(req) = "daily-stats" /\ IsUuidText(ClaimsOf(req).sub))
        => DailyStats

\* Two closed incidents are counted, one of them created days ago.
C15_EarlierDayCounted ==
    /\ ManagerClaims /\ Endpoint(req) = "daily-stats" /\ resp.status = 200
    /\ resp.counts = <<2>>
    /\ \E r \in SubjectAssigned : r.state = "closed" /\ r.creation_date < StartOfToday

=============================================================================
